---- MODULE Spec2Model ----
(***************************************************************************)
(* State-machine model of src/bot.py: the sticker bot's startup (main,     *)
(* init_bot_info), its handlers (start_handler, handle_photo_start,        *)
(* handle_mode_selection, handle_other_messages), the FSM storage they     *)
(* share, the pure geometry of resize_to_sticker, and the platform calls   *)
(* they await.  Every await of a handler is a suspension point: a handler  *)
(* is a task whose pc names the call it is awaiting, and tasks of the same *)
(* or of different conversations interleave at those points.               *)
(***************************************************************************)
EXTENDS Integers, Sequences, FiniteSets, TLC

\* ------------------------------------------------------------------ bounds
NumConvs == 2
MaxEvents == 3
MaxActive == 2
MaxSmallDim == 4
MaxDelta == 2

\* ------------------------------------------------------- program constants
TARGET_SIZE == 512

\* Python's None and a present value, kept comparable for TLC.
None == <<>>
Some(x) == <<x>>
Val(o) == o[1]

Convs == 1..NumConvs

\* ------------------------------------------------------------------ strings
\* A string is a sequence of one-character strings.
LowerChar(c) ==
  CASE c = "A" -> "a"
    [] c = "B" -> "b"
    [] c = "O" -> "o"
    [] c = "S" -> "s"
    [] c = "T" -> "t"
    [] OTHER -> c

\* str.lower()
Lower(s) == [i \in 1..Len(s) |-> LowerChar(s[i])]

\* The handles the platform may have assigned to the bot.
Handles == { <<"S","t","B","o","t">>, <<"s","b","o","t">> }

\* os.environ.get("STICKER_PACK_PREFIX", "funstickers")
PACK_PREFIX == <<"f","u","n">>

\* f"{PACK_PREFIX}_by_{BOT_USERNAME}"
PackNameOf(username) == PACK_PREFIX \o <<"_","b","y","_">> \o username

\* str() of an optional string inside an f-string: None prints as "None".
Str(o) == IF o = None THEN <<"N","o","n","e">> ELSE Val(o)

\* f"https://t.me/addstickers/{PACK_NAME}"
PackLink(name) == <<"t",".","m","e","/">> \o Str(name)

\* ------------------------------------------------------------------ images
\* The sizes of the photos users send.  The image the background remover
\* returns for a photo has the photo's own width and height.
PhotoSizes == { [w |-> 640, h |-> 480] }

\* The bytes of the photo of the n-th event: every photo message carries bytes
\* of its own.
Photo(n, size) == [id |-> n, w |-> size.w, h |-> size.h]

\* Callback data, as the list data.split('_') yields.
CallbackData == { <<"mode","fit">>, <<"mode","square">>, <<"mode","crop">> }

\* F.data.startswith("mode_")
StartsWithMode(data) == Len(data) >= 2 /\ data[1] = "mode"

\* callback_query.data.split('_')[1]
ModeOf(data) == data[2]

Max(a, b) == IF a >= b THEN a ELSE b

\* The square cut from the left or top edge instead of the centre.
CropBox_FromEdge(width, height) ==
  IF width > height
    THEN [left |-> 0, top |-> 0, right |-> height, bottom |-> height]
    ELSE [left |-> 0, top |-> 0, right |-> width, bottom |-> width]

\* The crop box (left, top, right, bottom) of mode 'square'; an image that is
\* already square is not cropped.
CropBox(width, height) ==
  IF width > height
    THEN [left |-> (width - height) \div 2, top |-> 0,
          right |-> (width + height) \div 2, bottom |-> height]
    ELSE IF height > width
      THEN [left |-> 0, top |-> (height - width) \div 2,
            right |-> width, bottom |-> (height + width) \div 2]
      ELSE [left |-> 0, top |-> 0, right |-> width, bottom |-> height]

\* img.resize((TARGET_SIZE, TARGET_SIZE)).size after the crop
SquareSize(width, height) == [w |-> TARGET_SIZE, h |-> TARGET_SIZE]

\* |a/b - c/d| <= |a/b - e/f| over positive denominators, in integers.
AbsInt(x) == IF x < 0 THEN -x ELSE x
CloserOrEqual(a, b, c, d, e, f) ==
  AbsInt(a * d - c * b) * f <= AbsInt(a * f - e * b) * d

\* The image stretched to the full target on both axes.
Thumbnail_Stretch(width, height) == [w |-> TARGET_SIZE, h |-> TARGET_SIZE]

\* Image.thumbnail((512, 512)).size of Pillow: the image is left alone when it
\* already fits; otherwise the longer axis becomes 512 and the other one is the
\* floor or the ceiling of the scaled length, whichever keeps the aspect ratio
\* closer (the floor on a tie), and at least 1.
Thumbnail(width, height) ==
  IF TARGET_SIZE >= width /\ TARGET_SIZE >= height
    THEN [w |-> width, h |-> height]
    ELSE IF height >= width
      THEN LET fl == (TARGET_SIZE * width) \div height
               ce == IF fl * height = TARGET_SIZE * width THEN fl ELSE fl + 1
               x == IF CloserOrEqual(width, height, fl, TARGET_SIZE, ce, TARGET_SIZE)
                      THEN fl ELSE ce
           IN [w |-> Max(x, 1), h |-> TARGET_SIZE]
      ELSE LET fl == (TARGET_SIZE * height) \div width
               ce == IF fl * width = TARGET_SIZE * height THEN fl ELSE fl + 1
               y == IF fl = 0 THEN fl
                    ELSE IF CloserOrEqual(width, height, TARGET_SIZE, fl, TARGET_SIZE, ce)
                      THEN fl ELSE ce
           IN [w |-> TARGET_SIZE, h |-> Max(y, 1)]

\* The size of the PNG resize_to_sticker returns for a background-removed image
\* of the given size: 'square' crops and resizes, 'fit' thumbnails, and any
\* other mode value matches neither branch and leaves the image as it is.
ResizeToSticker(width, height, mode) ==
  IF mode = "square" THEN SquareSize(width, height)
  ELSE IF mode = "fit" THEN Thumbnail(width, height)
  ELSE [w |-> width, h |-> height]

\* ------------------------------------------------------------------- state
VARIABLES
  TOKEN,          \* whether BOT_TOKEN is set
  OWNER_ID,       \* int(OWNER_USER_ID), 0 when unset
  botHandle,      \* the handle the platform has assigned to the bot
  mainPc,         \* where main() is
  BOT_USERNAME,   \* global, None until init_bot_info
  PACK_NAME,      \* global, None until init_bot_info
  getMeCalls,     \* how many times bot.get_me has been called
  session,        \* the FSM storage: per conversation, its state and data
  tasks,          \* the handler invocations, in order of dispatch
  messages,       \* the messages the bot has sent, by message id
  stickerSet,     \* the platform's pack of the bot: whether it exists, its stickers
  platformLog,    \* the pack names the platform has been asked about, by call
  img             \* the image a resize_to_sticker call is working on

vars == << TOKEN, OWNER_ID, botHandle, mainPc, BOT_USERNAME, PACK_NAME, getMeCalls,
           session, tasks, messages, stickerSet, platformLog, img >>

\* The errors a platform call can raise: TelegramBadRequest, or anything else.
Errors == { "BadRequest", "Network" }

\* What bot.download and the edits of handle_photo_start raise here: the one
\* except clause of that handler treats every exception alike.
DownloadErrors == { "Network" }
PromptErrors == { "BadRequest" }

\* state.clear(): no state, no data.
IdleSession == [state |-> "None", photo_bytes |-> None, wait_message_id |-> None]

\* A message text: what it says, and the mode, pack link and cause it carries.
Text(kind, mode, link, cause) ==
  [kind |-> kind, mode |-> mode, link |-> link, cause |-> cause]

NoText == Text("none", "", <<>>, "")

NoBox == [left |-> 0, top |-> 0, right |-> 0, bottom |-> 0]
NoImg == [w |-> 0, h |-> 0, mode |-> "", box |-> NoBox, out |-> [w |-> 0, h |-> 0],
          done |-> FALSE]

\* A handler invocation and its local variables.
NewTask(kind, conv) ==
  [kind |-> kind, conv |-> conv, pc |-> "done",
   photo |-> None,            \* the photo of the message
   data |-> <<>>,             \* the callback data
   tapped |-> None,           \* the message whose button was tapped
   wait_message_id |-> None, photo_bytes |-> None, mode |-> "",
   sticker_file |-> None, pack_link |-> <<>>, final_text |-> NoText,
   probe |-> "", exists |-> FALSE, failed |-> FALSE,
   published |-> FALSE,       \* the create or append call returned
   occupied |-> FALSE,        \* the create call was refused: the name is taken
   resizeCalls |-> 0, probeCalls |-> 0, createCalls |-> 0, addCalls |-> 0]

Init ==
  /\ TOKEN \in BOOLEAN
  /\ OWNER_ID \in {0, 1}
  /\ botHandle \in Handles
  /\ mainPc = "start"
  /\ BOT_USERNAME = None
  /\ PACK_NAME = None
  /\ getMeCalls = 0
  /\ session = [c \in Convs |-> IdleSession]
  /\ tasks = <<>>
  /\ messages = <<>>
  /\ stickerSet \in { [exists |-> e, stickers |-> {}] : e \in BOOLEAN }
  /\ platformLog = {}
  /\ img = NoImg

\* ------------------------------------------------------------------ startup
\* main(): without a token it returns at once; a missing owner id is only
\* warned about.  Then it awaits init_bot_info.
MainStart ==
  /\ mainPc = "start"
  /\ mainPc' = IF ~TOKEN THEN "exited" ELSE "init"
  /\ UNCHANGED << TOKEN, OWNER_ID, botHandle, BOT_USERNAME, PACK_NAME, getMeCalls,
                  session, tasks, messages, stickerSet, platformLog, img >>

\* The handle stored as the platform gives it, not lowercased.
InitBotInfoUsername_NoLower(info) == info

\* What init_bot_info stores: the lowercased handle and the pack name.
InitBotInfoUsername(info) == Lower(info)
InitBotInfoPackName(info) == PackNameOf(InitBotInfoUsername(info))

\* init_bot_info succeeds: the globals are set and polling starts.
InitBotInfoOk ==
  /\ mainPc = "init"
  /\ getMeCalls' = getMeCalls + 1
  /\ BOT_USERNAME' = Some(InitBotInfoUsername(botHandle))
  /\ PACK_NAME' = Some(InitBotInfoPackName(botHandle))
  /\ mainPc' = "polling"
  /\ UNCHANGED << TOKEN, OWNER_ID, botHandle, session, tasks, messages, stickerSet,
                  platformLog, img >>

\* bot.get_me raises: main logs "Bot failed to start" and returns.
InitBotInfoFail ==
  /\ mainPc = "init"
  /\ getMeCalls' = getMeCalls + 1
  /\ mainPc' = "exited"
  /\ UNCHANGED << TOKEN, OWNER_ID, botHandle, BOT_USERNAME, PACK_NAME, session, tasks,
                  messages, stickerSet, platformLog, img >>

\* What no handler changes.
Frame == UNCHANGED << TOKEN, OWNER_ID, botHandle, mainPc, BOT_USERNAME, PACK_NAME,
                      getMeCalls, img >>

\* The handlers that have not returned yet.
Active == { t \in DOMAIN tasks : tasks[t].pc # "done" }

\* The dispatcher delivers events only while polling; here a bounded number of
\* them, and a bounded number of handlers at a time.
CanDispatch ==
  mainPc = "polling" /\ Len(tasks) < MaxEvents /\ Cardinality(Active) < MaxActive

\* message.answer(text): a new message of the conversation.
NewMessage(conv, text, by) ==
  [chat |-> conv, text |-> text, by |-> by, keyboard |-> FALSE, prompted |-> FALSE]

\* bot.edit_message_text on message m, with or without the mode keyboard.
Edited(m, text, by, keyboard) ==
  [messages EXCEPT ![m] = [@ EXCEPT !.text = text, !.by = by, !.keyboard = keyboard,
                                    !.prompted = @ \/ keyboard]]

\* An edit can succeed only on a message id that names a message.
Editable(mid) == mid # None /\ Val(mid) \in DOMAIN messages

SetTask(t, r) == tasks' = [tasks EXCEPT ![t] = r]

\* ------------------------------------------------------ start_handler, others
\* A /start that also resets the conversation's session.
StartHandler_Clears(c) ==
  /\ CanDispatch
  /\ tasks' = Append(tasks, NewTask("start", c))
  /\ messages' = Append(messages,
        NewMessage(c, Text("welcome", "", PackLink(PACK_NAME), ""), Len(tasks) + 1))
  /\ session' = [session EXCEPT ![c] = IdleSession]
  /\ UNCHANGED << stickerSet, platformLog >>
  /\ Frame

\* start_handler: one message.answer with the welcome text and the pack link.
StartHandler(c) ==
  /\ CanDispatch
  /\ tasks' = Append(tasks, NewTask("start", c))
  /\ \/ messages' = Append(messages,
           NewMessage(c, Text("welcome", "", PackLink(PACK_NAME), ""), Len(tasks) + 1))
     \/ UNCHANGED messages
  /\ UNCHANGED << session, stickerSet, platformLog >>
  /\ Frame

\* The kinds of message that are neither /start nor a photo.
OtherKinds == { "text", "command", "nontext" }

\* handle_other_messages: a message without text, or a command, is ignored; any
\* other text is answered with the request for a photo.
HandleOtherMessages(c, kind) ==
  /\ CanDispatch
  /\ tasks' = Append(tasks, NewTask("other", c))
  /\ IF kind = "text"
       THEN \/ messages' = Append(messages,
                 NewMessage(c, Text("send_photo", "", <<>>, ""), Len(tasks) + 1))
            \/ UNCHANGED messages
       ELSE UNCHANGED messages
  /\ UNCHANGED << session, stickerSet, platformLog >>
  /\ Frame

\* ------------------------------------------------------- handle_photo_start
\* A photo message is dispatched: the handler starts and awaits message.answer.
PhotoArrives(c, size) ==
  /\ CanDispatch
  /\ tasks' = Append(tasks, [NewTask("photo", c) EXCEPT
                                !.pc = "ack", !.photo = Some(Photo(Len(tasks) + 1, size))])
  /\ UNCHANGED << session, messages, stickerSet, platformLog >>
  /\ Frame

\* message.answer("Photo received..."): the status message, or an exception that
\* leaves the handler (the call is outside the try).
PhotoAck(t) ==
  /\ tasks[t].kind = "photo" /\ tasks[t].pc = "ack"
  /\ \/ /\ messages' = Append(messages, NewMessage(tasks[t].conv, Text("ack", "", <<>>, ""), t))
        /\ SetTask(t, [tasks[t] EXCEPT !.pc = "download",
                                       !.wait_message_id = Some(Len(messages) + 1)])
     \/ /\ SetTask(t, [tasks[t] EXCEPT !.pc = "done", !.failed = TRUE])
        /\ UNCHANGED messages
  /\ UNCHANGED << session, stickerSet, platformLog >>
  /\ Frame

\* The data stored without the state being set.
Stored_NoState(photo_bytes, wait_message_id) ==
  [state |-> "None", photo_bytes |-> photo_bytes, wait_message_id |-> wait_message_id]

\* state.update_data(photo_bytes, wait_message_id) and set_state(waiting).
Stored(photo_bytes, wait_message_id) ==
  [state |-> "waiting", photo_bytes |-> photo_bytes, wait_message_id |-> wait_message_id]

\* bot.download returns: the bytes and the status message id are stored, the
\* state is set, and the prompt edit is awaited; or it raises.
PhotoDownload(t) ==
  /\ tasks[t].kind = "photo" /\ tasks[t].pc = "download"
  /\ \/ /\ session' = [session EXCEPT ![tasks[t].conv] =
                          Stored(tasks[t].photo, tasks[t].wait_message_id)]
        /\ SetTask(t, [tasks[t] EXCEPT !.pc = "prompt", !.photo_bytes = tasks[t].photo])
     \/ \E e \in DownloadErrors :
          /\ SetTask(t, [tasks[t] EXCEPT !.pc = "erredit", !.failed = TRUE,
                           !.final_text = Text("photo_error", "", <<>>, e)])
          /\ UNCHANGED session
  /\ UNCHANGED << messages, stickerSet, platformLog >>
  /\ Frame

\* bot.edit_message_text with the mode prompt and its keyboard.
PhotoPrompt(t) ==
  /\ tasks[t].kind = "photo" /\ tasks[t].pc = "prompt"
  /\ \/ /\ messages' = Edited(Val(tasks[t].wait_message_id), Text("prompt", "", <<>>, ""), t, TRUE)
        /\ SetTask(t, [tasks[t] EXCEPT !.pc = "done"])
     \/ \E e \in PromptErrors :
          /\ SetTask(t, [tasks[t] EXCEPT !.pc = "erredit", !.failed = TRUE,
                           !.final_text = Text("photo_error", "", <<>>, e)])
          /\ UNCHANGED messages
  /\ UNCHANGED << session, stickerSet, platformLog >>
  /\ Frame

\* The except branch: the error edit, then state.clear(); an edit that raises
\* leaves the handler before the clear.
PhotoErrEdit(t) ==
  /\ tasks[t].kind = "photo" /\ tasks[t].pc = "erredit"
  /\ \/ /\ messages' = Edited(Val(tasks[t].wait_message_id), tasks[t].final_text, t, FALSE)
        /\ session' = [session EXCEPT ![tasks[t].conv] = IdleSession]
     \/ UNCHANGED << messages, session >>
  /\ SetTask(t, [tasks[t] EXCEPT !.pc = "done"])
  /\ UNCHANGED << stickerSet, platformLog >>
  /\ Frame

\* ---------------------------------------------------- handle_mode_selection
\* The filters of handle_mode_selection, evaluated when the callback is
\* dispatched: the conversation's state is waiting_for_mode_selection and the
\* data starts with "mode_".
ModeFilter(c, data) == session[c].state = "waiting" /\ StartsWithMode(data)

\* A tap on a button of message m of conversation c is dispatched.  When the
\* filters match, the handler starts and awaits callback_query.answer;
\* otherwise no handler matches and nothing is done.
CallbackArrives(c, m, data) ==
  /\ CanDispatch
  /\ m \in DOMAIN messages /\ messages[m].chat = c /\ messages[m].prompted
  /\ IF ModeFilter(c, data)
       THEN tasks' = Append(tasks, [NewTask("mode", c) EXCEPT
                                      !.pc = "answer", !.data = data, !.tapped = Some(m)])
       ELSE tasks' = Append(tasks, [NewTask("unhandled", c) EXCEPT
                                      !.data = data, !.tapped = Some(m)])
  /\ UNCHANGED << session, messages, stickerSet, platformLog >>
  /\ Frame

\* The three except clauses of handle_mode_selection, by the exception raised.
ExceptText(e) ==
  CASE e = "ValueError" -> Text("err_processing", "", <<>>, e)
    [] e = "BadRequest" -> Text("err_api", "", <<>>, e)
    [] OTHER -> Text("err_unexpected", "", <<>>, e)

\* The asset resize_to_sticker makes of the stored bytes.
StickerOf(photo, mode) ==
  [photo |-> photo.id, size |-> ResizeToSticker(photo.w, photo.h, mode)]

\* callback_query.answer returns (or raises, and the handler is left); the data
\* of the session are read and the mode is split off the callback data.  With
\* no bytes the resend edit is awaited.  Otherwise resize_to_sticker runs, which
\* does not suspend: it returns the asset, and the existence probe is awaited,
\* or it raises ValueError, and the final edit is awaited.
ModeAnswer(t) ==
  /\ tasks[t].kind = "mode" /\ tasks[t].pc = "answer"
  /\ LET s == session[tasks[t].conv]
         r == [tasks[t] EXCEPT !.photo_bytes = s.photo_bytes,
                               !.wait_message_id = s.wait_message_id,
                               !.mode = ModeOf(tasks[t].data)]
     IN \/ SetTask(t, [tasks[t] EXCEPT !.pc = "done", !.failed = TRUE])
        \/ /\ s.photo_bytes = None
           /\ SetTask(t, [r EXCEPT !.pc = "resend"])
        \/ /\ s.photo_bytes # None
           /\ SetTask(t, [r EXCEPT !.pc = "probe", !.resizeCalls = @ + 1,
                            !.sticker_file = Some(StickerOf(Val(s.photo_bytes), r.mode)),
                            !.pack_link = PackLink(PACK_NAME)])
        \/ /\ s.photo_bytes # None
           /\ SetTask(t, [r EXCEPT !.pc = "final", !.resizeCalls = @ + 1, !.failed = TRUE,
                            !.final_text = ExceptText("ValueError")])
  /\ UNCHANGED << session, messages, stickerSet, platformLog >>
  /\ Frame

\* The "image data not found" edit, then state.clear() and return; an edit that
\* raises leaves the handler before the clear.
ModeResend(t) ==
  /\ tasks[t].kind = "mode" /\ tasks[t].pc = "resend"
  /\ \/ /\ Editable(tasks[t].wait_message_id)
        /\ messages' = Edited(Val(tasks[t].wait_message_id), Text("resend", "", <<>>, ""), t, FALSE)
        /\ session' = [session EXCEPT ![tasks[t].conv] = IdleSession]
        /\ SetTask(t, [tasks[t] EXCEPT !.pc = "done"])
     \/ /\ SetTask(t, [tasks[t] EXCEPT !.pc = "done", !.failed = TRUE])
        /\ UNCHANGED << messages, session >>
  /\ UNCHANGED << stickerSet, platformLog >>
  /\ Frame

\* Only not-found taken as absence: any other error counted as existence.
PackExists_ErrorIsTrue(outcome) == outcome # "notfound"

\* pack_exists: True when get_sticker_set returns, False on TelegramNotFound and
\* False on any other exception.
PackExists(outcome) == outcome = "ok"

\* The outcomes get_sticker_set can have on the platform.
ProbeOutcomes == { "ok", "notfound", "error" }
ProbePossible(outcome) ==
  CASE outcome = "ok" -> stickerSet.exists
    [] outcome = "notfound" -> ~stickerSet.exists
    [] OTHER -> TRUE

\* The branches exchanged.
PublishBranch_Inverted(exists) == IF exists THEN "create" ELSE "add"

\* if not await pack_exists(...): create_pack  else: add_to_pack
PublishBranch(exists) == IF exists THEN "add" ELSE "create"

\* await pack_exists(PACK_NAME), and the branch taken on its result.
ModeProbe(t) ==
  /\ tasks[t].kind = "mode" /\ tasks[t].pc = "probe"
  /\ \E outcome \in ProbeOutcomes :
       /\ ProbePossible(outcome)
       /\ SetTask(t, [tasks[t] EXCEPT !.probe = outcome, !.probeCalls = @ + 1,
                        !.exists = PackExists(outcome),
                        !.pc = PublishBranch(PackExists(outcome))])
  /\ platformLog' = platformLog \cup { << "get_sticker_set", PACK_NAME >> }
  /\ UNCHANGED << session, messages, stickerSet >>
  /\ Frame

\* A create or append call that raised: the except clause picks the text.
Raised(t, e) ==
  [tasks[t] EXCEPT !.pc = "final", !.failed = TRUE, !.final_text = ExceptText(e)]

\* await create_pack(PACK_NAME, sticker_file): the platform creates the pack
\* unless one of that name exists; create_pack re-raises what the call raises.
ModeCreate(t) ==
  /\ tasks[t].kind = "mode" /\ tasks[t].pc = "create"
  /\ platformLog' = platformLog \cup { << "create_new_sticker_set", PACK_NAME >> }
  /\ \/ /\ ~stickerSet.exists /\ OWNER_ID # 0
        /\ stickerSet' = [exists |-> TRUE,
                          stickers |-> stickerSet.stickers \cup { Val(tasks[t].sticker_file) }]
        /\ SetTask(t, [tasks[t] EXCEPT !.pc = "report", !.createCalls = @ + 1,
                         !.published = TRUE,
                         !.final_text = Text("created", tasks[t].mode, tasks[t].pack_link, "")])
     \/ \E e \in Errors :
          /\ SetTask(t, [Raised(t, e) EXCEPT !.createCalls = @ + 1,
                           !.occupied = stickerSet.exists /\ e = "BadRequest"])
          /\ UNCHANGED stickerSet
  /\ UNCHANGED << session, messages >>
  /\ Frame

\* await add_to_pack(PACK_NAME, sticker_file): the platform appends to a pack
\* that exists; add_to_pack re-raises what the call raises.
ModeAdd(t) ==
  /\ tasks[t].kind = "mode" /\ tasks[t].pc = "add"
  /\ platformLog' = platformLog \cup { << "add_sticker_to_set", PACK_NAME >> }
  /\ \/ /\ stickerSet.exists /\ OWNER_ID # 0
        /\ stickerSet' = [stickerSet EXCEPT !.stickers = @ \cup { Val(tasks[t].sticker_file) }]
        /\ SetTask(t, [tasks[t] EXCEPT !.pc = "report", !.addCalls = @ + 1,
                         !.published = TRUE,
                         !.final_text = Text("added", tasks[t].mode, tasks[t].pack_link, "")])
     \/ \E e \in Errors :
          /\ SetTask(t, [Raised(t, e) EXCEPT !.addCalls = @ + 1])
          /\ UNCHANGED stickerSet
  /\ UNCHANGED << session, messages >>
  /\ Frame

\* The success edit inside the try; what it raises is caught like the rest.
ModeReport(t) ==
  /\ tasks[t].kind = "mode" /\ tasks[t].pc = "report"
  /\ \/ /\ messages' = Edited(Val(tasks[t].wait_message_id), tasks[t].final_text, t, FALSE)
        /\ SetTask(t, [tasks[t] EXCEPT !.pc = "final"])
     \/ \E e \in Errors :
          /\ SetTask(t, Raised(t, e))
          /\ UNCHANGED messages
  /\ UNCHANGED << session, stickerSet, platformLog >>
  /\ Frame

\* The final edit after the try, then state.clear(); an edit that raises leaves
\* the handler before the clear.
ModeFinal(t) ==
  /\ tasks[t].kind = "mode" /\ tasks[t].pc = "final"
  /\ \/ /\ messages' = Edited(Val(tasks[t].wait_message_id), tasks[t].final_text, t, FALSE)
        /\ session' = [session EXCEPT ![tasks[t].conv] = IdleSession]
        /\ SetTask(t, [tasks[t] EXCEPT !.pc = "done"])
     \/ /\ SetTask(t, [tasks[t] EXCEPT !.pc = "done", !.failed = TRUE])
        /\ UNCHANGED << messages, session >>
  /\ UNCHANGED << stickerSet, platformLog >>
  /\ Frame

\* ------------------------------------------------------------ specification
Next ==
  \/ MainStart
  \/ InitBotInfoOk
  \/ InitBotInfoFail
  \/ \E c \in Convs : StartHandler(c)
  \/ \E c \in Convs, kind \in OtherKinds : HandleOtherMessages(c, kind)
  \/ \E c \in Convs, size \in PhotoSizes : PhotoArrives(c, size)
  \/ \E c \in Convs, m \in DOMAIN messages, data \in CallbackData : CallbackArrives(c, m, data)
  \/ \E t \in DOMAIN tasks : PhotoAck(t)
  \/ \E t \in DOMAIN tasks : PhotoDownload(t)
  \/ \E t \in DOMAIN tasks : PhotoPrompt(t)
  \/ \E t \in DOMAIN tasks : PhotoErrEdit(t)
  \/ \E t \in DOMAIN tasks : ModeAnswer(t)
  \/ \E t \in DOMAIN tasks : ModeResend(t)
  \/ \E t \in DOMAIN tasks : ModeProbe(t)
  \/ \E t \in DOMAIN tasks : ModeCreate(t)
  \/ \E t \in DOMAIN tasks : ModeAdd(t)
  \/ \E t \in DOMAIN tasks : ModeReport(t)
  \/ \E t \in DOMAIN tasks : ModeFinal(t)

Spec == Init /\ [][Next]_vars

\* ------------------------------------------------ resize_to_sticker, alone
\* The widths and heights tried: the smallest ones, and those around one and
\* two times the target size.
Dims ==
  (1..MaxSmallDim)
    \cup { TARGET_SIZE + d : d \in (-MaxDelta)..MaxDelta }
    \cup { 2 * TARGET_SIZE + d : d \in (-MaxDelta)..MaxDelta }

\* The mode values resize_to_sticker is called with.
Modes == { ModeOf(data) : data \in CallbackData }

\* A background-removed image of any of the sizes, and a mode.
InitResize ==
  /\ TOKEN = TRUE /\ OWNER_ID = 1 /\ botHandle \in Handles
  /\ mainPc = "resize"
  /\ BOT_USERNAME = None /\ PACK_NAME = None /\ getMeCalls = 0
  /\ session = [c \in Convs |-> IdleSession]
  /\ tasks = <<>> /\ messages = <<>>
  /\ stickerSet = [exists |-> FALSE, stickers |-> {}]
  /\ platformLog = {}
  /\ img \in { [NoImg EXCEPT !.w = w, !.h = h, !.mode = m] :
                 w \in Dims, h \in Dims, m \in Modes }

\* resize_to_sticker on that image: the crop box of mode 'square', and the size
\* of the PNG returned.
ResizeCall ==
  /\ mainPc = "resize" /\ ~img.done
  /\ img' = [img EXCEPT !.done = TRUE,
                        !.box = IF img.mode = "square" THEN CropBox(img.w, img.h) ELSE NoBox,
                        !.out = ResizeToSticker(img.w, img.h, img.mode)]
  /\ UNCHANGED << TOKEN, OWNER_ID, botHandle, mainPc, BOT_USERNAME, PACK_NAME, getMeCalls,
                  session, tasks, messages, stickerSet, platformLog >>

NextResize == ResizeCall

SpecResize == InitResize /\ [][NextResize]_vars

\* ------------------------------------------------------------------- claims
ModeTasks == { t \in DOMAIN tasks : tasks[t].kind = "mode" }
PhotoTasks == { t \in DOMAIN tasks : tasks[t].kind = "photo" }

\* Handler t returns in this step.
Returns(t) == tasks[t].pc # "done" /\ tasks'[t].pc = "done"

\* The texts that report success, and the one that asks for the photo again.
SuccessKinds == { "created", "added" }

\* C1: whenever handle_mode_selection returns after its callback was
\* acknowledged, whatever the outcomes of the Normalizer, the probe, the
\* create/append call and the status-message edits were, the session of its
\* conversation is Idle: no state, no pending bytes, no status-message reference.
C1_SessionIdleAfterModeSelection ==
  [][\A t \in ModeTasks :
       (Returns(t) /\ tasks[t].pc # "answer") => session'[tasks[t].conv] = IdleSession]_vars

\* C2: a mode-choice event dispatched while the store holds no session for its
\* conversation produces a message asking to resend the photo, and causes no
\* call to the Normalizer and none to the Registry.
C2_IdleModeChoiceAsksResend ==
  \A t \in DOMAIN tasks :
    (tasks[t].kind = "unhandled" /\ StartsWithMode(tasks[t].data)) =>
      /\ \E m \in DOMAIN messages :
           messages[m].by = t /\ messages[m].text.kind = "resend"
      /\ tasks[t].resizeCalls = 0 /\ tasks[t].probeCalls = 0
      /\ tasks[t].createCalls = 0 /\ tasks[t].addCalls = 0

\* C3: when the existence probe returned false and the create-pack call then
\* failed because the pack already exists, the flow ends with a success text,
\* not with an error text.
C3_OccupiedCreateReportsSuccess ==
  \A t \in ModeTasks :
    (~tasks[t].exists /\ tasks[t].occupied) => tasks[t].final_text.kind \in SuccessKinds

\* C4: when handle_photo_start returns after a failure at any step, the status
\* message shows the error text with its cause and the session of the
\* conversation is Idle, whatever it was before.
C4_FailedPhotoReportsAndClears ==
  [][\A t \in PhotoTasks :
       (Returns(t) /\ tasks'[t].failed) =>
         /\ session'[tasks[t].conv] = IdleSession
         /\ tasks[t].wait_message_id # None
         /\ messages'[Val(tasks[t].wait_message_id)].text.kind = "photo_error"
         /\ messages'[Val(tasks[t].wait_message_id)].text.cause # ""]_vars

\* C5: when handle_mode_selection finds no pending bytes, then on its return
\* the status message shows the resend error, neither the Normalizer nor a
\* Registry operation was invoked, and the session is cleared.
C5_NoBytesAsksResendAndClears ==
  [][\A t \in ModeTasks :
       (Returns(t) /\ tasks[t].pc = "resend") =>
         /\ \E m \in DOMAIN messages :
              messages'[m].by = t /\ messages'[m].text.kind = "resend"
         /\ tasks'[t].resizeCalls = 0 /\ tasks'[t].probeCalls = 0
         /\ tasks'[t].createCalls = 0 /\ tasks'[t].addCalls = 0
         /\ session'[tasks[t].conv] = IdleSession]_vars

\* C6: a mode-choice handler that found pending bytes invokes the Normalizer
\* exactly once, with the mode of its callback data; when the Normalizer
\* succeeded it probes once and, by its return, has issued exactly one publish
\* command exactly once: create-pack when the probe returned false,
\* append-to-pack when it returned true, never both and never a second time.
C6_OneResizeOnePublish ==
  \A t \in ModeTasks :
    LET r == tasks[t] IN
    /\ r.resizeCalls <= 1 /\ r.probeCalls <= 1 /\ r.createCalls + r.addCalls <= 1
    /\ (r.photo_bytes # None) =>
         /\ r.resizeCalls = 1
         /\ r.mode = r.data[2]
    /\ (r.sticker_file # None /\ r.pc \in { "report", "final", "done" }) =>
         /\ r.probeCalls = 1
         /\ r.createCalls + r.addCalls = 1
         /\ r.createCalls = 1 <=> ~r.exists
    /\ (r.sticker_file = None) => r.probeCalls + r.createCalls + r.addCalls = 0

\* A handler that found bytes, whose Normalizer succeeded, whose probe returned
\* false and which has returned after its one create-pack call.
C6_Witness ==
  \E t \in ModeTasks :
    /\ tasks[t].pc = "done" /\ tasks[t].photo_bytes # None /\ tasks[t].mode = "square"
    /\ tasks[t].resizeCalls = 1 /\ ~tasks[t].exists
    /\ tasks[t].createCalls = 1 /\ tasks[t].addCalls = 0

\* The pack identity the bot's handle gives: prefix, "_by_", lowercased handle.
ExpectedPackName == PACK_PREFIX \o <<"_","b","y","_">> \o Lower(botHandle)

\* C7: the pack identity is resolved once, before any event is handled, as
\* prefix + "_by_" + lowercased handle; it never is anything else afterwards,
\* the platform is asked for the handle at most once, and every pack link and
\* every probe, create and append uses that identity, never an unresolved one.
C7_PackIdentityResolvedOnce ==
  /\ getMeCalls <= 1
  /\ PACK_NAME \in { None, Some(ExpectedPackName) }
  /\ (mainPc = "polling" \/ tasks # <<>>) =>
       /\ getMeCalls = 1
       /\ PACK_NAME = Some(ExpectedPackName)
       /\ BOT_USERNAME = Some(Lower(botHandle))
  /\ \A call \in platformLog : call[2] = Some(ExpectedPackName)
  /\ \A m \in DOMAIN messages :
       messages[m].text.kind \in (SuccessKinds \cup { "welcome" }) =>
         messages[m].text.link = <<"t",".","m","e","/">> \o ExpectedPackName
  /\ \A t \in ModeTasks :
       tasks[t].sticker_file # None =>
         tasks[t].pack_link = <<"t",".","m","e","/">> \o ExpectedPackName

\* A state in which a welcome text and a success text carry the link and the
\* probe and the create call have used the identity, for a handle that is not
\* lowercase as the platform gives it.
C7_Witness ==
  /\ botHandle # Lower(botHandle)
  /\ \E m \in DOMAIN messages : messages[m].text.kind = "welcome"
  /\ \E m \in DOMAIN messages : messages[m].text.kind = "created"
  /\ << "get_sticker_set", PACK_NAME >> \in platformLog
  /\ << "create_new_sticker_set", PACK_NAME >> \in platformLog

\* C8: pack_exists never propagates an error: it returns true only when the
\* platform query succeeded and false on not-found and on every other error,
\* so that a request whose probe failed takes the create-pack branch, also when
\* the pack exists on the platform.
C8_ProbeDegradesToFalse ==
  \A t \in ModeTasks :
    LET r == tasks[t] IN
    r.probeCalls = 1 =>
      /\ r.exists <=> r.probe = "ok"
      /\ r.probe \in { "notfound", "error" } =>
           /\ r.addCalls = 0
           /\ r.pc = "create" \/ r.createCalls = 1
      /\ r.probe = "ok" =>
           /\ r.createCalls = 0
           /\ r.pc = "add" \/ r.addCalls = 1

\* The probe failed with an error other than not-found while the pack existed,
\* and the request has issued its create-pack call.
C8_Witness ==
  \E t \in ModeTasks :
    /\ tasks[t].probe = "error" /\ stickerSet.exists
    /\ tasks[t].createCalls = 1 /\ tasks[t].pc = "final"

\* C9: every asset handed to create-pack or append-to-pack is at most 512 wide
\* and at most 512 high, whatever mode value the accepted callback carried.
C9_PublishedAssetWithinTarget ==
  \A t \in ModeTasks :
    (tasks[t].createCalls + tasks[t].addCalls >= 1) =>
      /\ Val(tasks[t].sticker_file).size.w <= 512
      /\ Val(tasks[t].sticker_file).size.h <= 512

\* C10: for mode square and an image of width w and height h: the crop box is
\* a square of side min(w, h) inside the image, the margins cut from the two
\* sides of the longer axis differ by at most one pixel, and the output is
\* exactly 512 by 512.
C10_SquareCropCentered ==
  (img.done /\ img.mode = "square") =>
    LET side == IF img.w <= img.h THEN img.w ELSE img.h
        b == img.box
    IN /\ b.right - b.left = side /\ b.bottom - b.top = side
       /\ 0 <= b.left /\ b.right <= img.w
       /\ 0 <= b.top /\ b.bottom <= img.h
       /\ b.left - (img.w - b.right) \in { -1, 0, 1 }
       /\ b.top - (img.h - b.bottom) \in { -1, 0, 1 }
       /\ img.out = [w |-> 512, h |-> 512]

\* A wide image whose two margins cannot be equal and whose square is
\* enlarged, after the call.
C10_Witness ==
  /\ img.done /\ img.mode = "square"
  /\ img.w > img.h /\ (img.w - img.h) % 2 = 1 /\ img.h < 512
  /\ img.box.left + 1 = img.w - img.box.right

\* C11: for mode fit and an image of width w and height h: the output is at
\* most 512 wide and 512 high and never larger than the input on either axis,
\* an image already within 512 by 512 keeps its size, nothing is cropped, and
\* the output's aspect ratio is w:h within rounding to whole pixels (the
\* scaled axis is the exact scaled length rounded down or up).
C11_FitShrinksKeepingAspect ==
  (img.done /\ img.mode = "fit") =>
    /\ img.out.w <= 512 /\ img.out.h <= 512
    /\ 1 <= img.out.w /\ img.out.w <= img.w
    /\ 1 <= img.out.h /\ img.out.h <= img.h
    /\ (img.w <= 512 /\ img.h <= 512) => img.out = [w |-> img.w, h |-> img.h]
    /\ img.box = NoBox
    /\ (img.w > 512 \/ img.h > 512) =>
         IF img.h >= img.w
           THEN /\ img.out.h = 512
                /\ img.out.w * img.h - 512 * img.w \in (1 - img.h)..(img.h - 1)
           ELSE /\ img.out.w = 512
                /\ img.out.h * img.w - 512 * img.h \in (1 - img.w)..(img.w - 1)

\* A wide image above the target whose scaled height is not a whole number,
\* after the call.
C11_Witness ==
  /\ img.done /\ img.mode = "fit"
  /\ img.w > 512 /\ img.h < img.w /\ img.h > 1
  /\ (512 * img.h) % img.w # 0
  /\ img.out.w = 512 /\ img.out.h < 512

\* C12: when the token or the owner id is missing from the configuration,
\* startup aborts: identity resolution is not attempted, polling is never
\* started and no event is ever handled.
C12_MissingConfigAborts ==
  (~TOKEN \/ OWNER_ID = 0) =>
    /\ getMeCalls = 0
    /\ mainPc \notin { "init", "polling" }
    /\ tasks = <<>>

\* C13: when the Normalizer failed for a request, then on the handler's return
\* the Normalizer has run once, no probe, create or append was issued, the
\* status message shows the failure text with its cause, and the session is
\* cleared.
C13_FailedResizeReportsAndClears ==
  [][\A t \in ModeTasks :
       (Returns(t) /\ tasks[t].resizeCalls = 1 /\ tasks[t].sticker_file = None) =>
         /\ tasks'[t].resizeCalls = 1
         /\ tasks'[t].probeCalls + tasks'[t].createCalls + tasks'[t].addCalls = 0
         /\ messages'[Val(tasks[t].wait_message_id)].text.kind = "err_processing"
         /\ messages'[Val(tasks[t].wait_message_id)].text.cause # ""
         /\ session'[tasks[t].conv] = IdleSession]_vars

\* The task a step belongs to: the one dispatched by it, or the one resumed.
StepOf(t) ==
  \/ t \notin DOMAIN tasks
  \/ t \in DOMAIN tasks /\ tasks'[t] # tasks[t]

\* C14: a session in AwaitingModeChoice is changed only by a step of a photo
\* handler or of a mode-choice handler of its own conversation: a /start, any
\* other non-photo message and every event of another conversation leave its
\* state, its bytes and its status-message reference as they are, and nothing
\* expires it.
C14_WaitingSessionFrame ==
  [][\A c \in Convs :
       (session[c].state = "waiting" /\ session'[c] # session[c]) =>
         \E t \in DOMAIN tasks' :
           /\ StepOf(t)
           /\ tasks'[t].conv = c
           /\ tasks'[t].kind \in { "photo", "mode" }]_vars

\* A /start handled in a conversation after its mode-choice callback was
\* dispatched, welcome text sent, with the session still awaiting the choice.
C14_Witness ==
  \E t \in DOMAIN tasks :
    /\ t > 1 /\ tasks[t].kind = "start" /\ tasks[t - 1].kind = "mode"
    /\ tasks[t - 1].conv = tasks[t].conv
    /\ session[tasks[t].conv].state = "waiting"
    /\ session[tasks[t].conv].photo_bytes # None
    /\ \E m \in DOMAIN messages : messages[m].by = t

\* The photo handler whose status message is m.
PhotoTaskOf(m) == { t \in PhotoTasks : tasks[t].wait_message_id = Some(m) }

\* C15: the sticker a mode-choice handler makes is made from the photo whose
\* prompt was tapped, and the handler writes to that prompt message, also when
\* a second photo of the conversation was received meanwhile.
C15_StickerFromTappedPrompt ==
  \A t \in ModeTasks :
    tasks[t].sticker_file # None =>
      /\ tasks[t].wait_message_id = tasks[t].tapped
      /\ \E tp \in PhotoTaskOf(Val(tasks[t].tapped)) :
           Val(tasks[tp].photo).id = Val(tasks[t].sticker_file).photo

\* The handlers that have issued a create or append call with an asset made
\* from photo p.
PublishCallsOf(p) ==
  { t \in ModeTasks :
      /\ tasks[t].createCalls + tasks[t].addCalls >= 1
      /\ Val(tasks[t].sticker_file).photo = p }

\* C16: for each accepted photo at most one create-pack or append-to-pack call
\* is ever issued with an asset made from it, also when two callbacks for the
\* same prompt are handled with their suspension points interleaved.
C16_OnePublishPerPhoto ==
  \A tp \in PhotoTasks : Cardinality(PublishCallsOf(Val(tasks[tp].photo).id)) <= 1

\* C17: the clear at the end of a mode-choice handler or of a failed photo
\* handler removes only the session that handler worked on: a session stored
\* meanwhile by a later photo of the conversation (photos are numbered in the
\* order of their dispatch) is as it was after the earlier handler's return.
C17_ClearSparesLaterSession ==
  [][\A t \in ModeTasks \cup PhotoTasks :
       LET c == tasks[t].conv IN
       ( /\ Returns(t)
         /\ tasks[t].photo_bytes # None \/ tasks[t].kind = "photo"
         /\ session[c].state = "waiting"
         /\ Val(session[c].photo_bytes).id >
              Val(IF tasks[t].kind = "photo" THEN tasks[t].photo
                  ELSE tasks[t].photo_bytes).id )
       => session'[c] = session[c]]_vars

\* C18: a conversation in AwaitingModeChoice holds pending bytes and a
\* status-message reference, and an Idle one holds neither.
C18_SessionShape ==
  \A c \in Convs :
    /\ session[c].state \in { "None", "waiting" }
    /\ session[c].state = "waiting" =>
         /\ session[c].photo_bytes # <<>>
         /\ session[c].wait_message_id # <<>>
         /\ Val(session[c].wait_message_id) \in DOMAIN messages
    /\ session[c].state = "None" =>
         /\ session[c].photo_bytes = <<>>
         /\ session[c].wait_message_id = <<>>

\* One conversation awaiting a choice with its bytes and reference, and another
\* back to Idle after a session of its own was cleared.
C18_Witness ==
  \E c, d \in Convs :
    /\ c # d
    /\ session[c].state = "waiting" /\ session[c].photo_bytes # None
    /\ session[d].state = "None"
    /\ \E t \in PhotoTasks : tasks[t].conv = d /\ tasks[t].photo_bytes # None

\* C19: the last text a returned mode-choice handler wrote to its status
\* message reports success exactly when its create or append call succeeded.
C19_LastTextMatchesPublish ==
  \A t \in ModeTasks :
    \A m \in DOMAIN messages :
      (tasks[t].pc = "done" /\ messages[m].by = t) =>
        (messages[m].text.kind \in SuccessKinds <=> tasks[t].published)

====
